---- MODULE Spec2Model ----
(***************************************************************************)
(* Model of the BackEnd SQL script pipeline of eFlowInstaller              *)
(* (src/app/installer/backend.py): run_backend_installation and the        *)
(* helpers it calls, run repeatedly against one SQL Server.                *)
(*                                                                         *)
(* A SQL text is a sequence of lexemes [k, v]: k is the syntactic form the *)
(* regular expressions of backend.py look for, v the name or literal in    *)
(* it.  [k |-> "USE[", v |-> "App"] is the text  USE [App] .               *)
(***************************************************************************)
EXTENDS Integers, Sequences, FiniteSets, TLC

\* ------------------------------------------------------------------ bounds
\* largest value of the retries field, number of requests served, number of
\* .sql files in the scripts folder, and number of .sql files in an upload
MaxRetries == 1
MaxRuns == 3
MaxScripts == 2
MaxUploads == 1
\* longest text, in lexemes, the sanitizers are applied to on their own
MaxLen == 3

\* ------------------------------------------------------- generic helpers
Range(f) == {f[i] : i \in DOMAIN f}

Lx(k, v) == [k |-> k, v |-> v]

\* ------------------------------------------------------ the script folder
\* File names as the characters NUM_RE and lower() look at: the four files of the
\* scripts folder, then names that only ordenar_scripts is applied to.
Chars(n) ==
    CASE n = "001_login.sql"  -> <<"0","0","1","_","l","o","g","i","n",".","s","q","l">>
      [] n = "002_Create.sql" -> <<"0","0","2","_","C","r","e","a","t","e",".","s","q","l">>
      [] n = "003_data.sql"   -> <<"0","0","3","_","d","a","t","a",".","s","q","l">>
      [] n = "004_copy.sql"   -> <<"0","0","4","_","c","o","p","y",".","s","q","l">>
      [] n = "001_a.sql"      -> <<"0","0","1","_","a",".","s","q","l">>
      [] n = "002_b.sql"      -> <<"0","0","2","_","b",".","s","q","l">>
      [] n = "003_x.sql"      -> <<"0","0","3","_","x",".","s","q","l">>
      [] n = "9_b.sql"        -> <<"9","_","b",".","s","q","l">>
      [] n = "10_a.sql"       -> <<"1","0","_","a",".","s","q","l">>
      [] n = "v2_10.sql"      -> <<"v","2","_","1","0",".","s","q","l">>
      [] n = "2000000000_z.sql" -> <<"2","0","0","0","0","0","0","0","0","0","_","z",".","s","q","l">>
      [] n = "setup.sql"      -> <<"s","e","t","u","p",".","s","q","l">>
      [] OTHER                -> <<"C","o","p","y",".","s","q","l">>

Names == {"001_login.sql", "002_Create.sql", "003_data.sql", "004_copy.sql"}

\* the names ordenar_scripts is applied to on its own
SortNames == {"001_a.sql", "002_b.sql", "003_x.sql", "9_b.sql", "10_a.sql", "v2_10.sql",
              "2000000000_z.sql", "setup.sql", "Copy.sql"}

NameChars == [n \in Names \cup SortNames |-> Chars(n)]

\* The content of the operator's .sql files before any run.
OrigText ==
    [n \in Names |->
        CASE n = "001_login.sql"  -> <<Lx("CREATE LOGIN[", "app"), Lx("sql", "@ENV@")>>
          [] n = "002_Create.sql" -> <<Lx("CREATE DATABASE[", "App"), Lx("sql", "@ENV@"), Lx("eol", "LF")>>
          [] n = "003_data.sql"   -> <<Lx("USE[", "App"), Lx("sql", "INSERT INTO t")>>
          [] OTHER                -> <<Lx("USE[", "App"), Lx("sql", "INSERT INTO t")>>]

NoFile == <<Lx("absent", "")>>

Paths == {"orig", "stage", "wrap"} \X Names

\* ------------------------------------------------------------ sanitizer
_BAD_CHARS == {"PILCROW", "BOM", "ZWSP", "ZWNJ", "ZWJ", "LSEP", "PSEP", "NBSP"}

\* lines 126-130 / 86-90: each bad character present is removed, one change each
StripBad(txt) == SelectSeq(txt, LAMBDA x : ~(x.k = "char" /\ x.v \in _BAD_CHARS))

BadChanges(txt) == Cardinality({x.v : x \in {y \in Range(txt) : y.k = "char" /\ y.v \in _BAD_CHARS}})

\* lines 132-140: control characters are dropped, one change per character
StripCtl(txt) == SelectSeq(txt, LAMBDA x : x.k # "ctl")

CtlChanges(txt) == Cardinality({i \in DOMAIN txt : txt[i].k = "ctl"})

\* lines 92-102: aggressive also drops every character outside 32..126
StripNonAscii(txt) == SelectSeq(txt, LAMBDA x : ~(x.k \in {"ctl", "char"}))

NonAsciiChanges(txt) == Cardinality({i \in DOMAIN txt : txt[i].k \in {"ctl", "char"}})

\* lines 142-143: CRLF, CR and LF all become CRLF; not counted as a change
NormEol(txt) == [i \in DOMAIN txt |-> IF txt[i].k = "eol" THEN Lx("eol", "CRLF") ELSE txt[i]]

\* lines 145-148: a space after a glued DELETE|UPDATE|INSERT|SELECT, one change in all
Spaced(v) ==
    CASE v = "INSERTED" -> "INSERT ED"
      [] v = "SELECT*"  -> "SELECT *"
      [] OTHER          -> v

Unglue(txt) == [i \in DOMAIN txt |-> IF txt[i].k = "glued" THEN Lx("sql", Spaced(txt[i].v)) ELSE txt[i]]

sanitize_sql_text_light(txt) ==
    LET n1 == StripBad(txt)
        n2 == StripCtl(n1)
        n3 == NormEol(n2)
        n4 == Unglue(n3)
    IN  [txt |-> n4,
         changes |-> BadChanges(txt) + CtlChanges(n1) + (IF n4 # n3 THEN 1 ELSE 0)]

sanitize_sql_text_aggressive(txt) ==
    LET n1 == StripBad(txt)
        n2 == StripNonAscii(n1)
        n3 == NormEol(n2)
        n4 == Unglue(n3)
    IN  [txt |-> n4,
         changes |-> BadChanges(txt) + NonAsciiChanges(n1) + (IF n4 # n3 THEN 1 ELSE 0)]

\* The file is rewritten only when changes > 0.
sanitize_sql_file(fs, path, level) ==
    LET r == IF level = "aggressive" THEN sanitize_sql_text_aggressive(fs[path])
             ELSE sanitize_sql_text_light(fs[path])
    IN  IF level \notin {"aggressive", "light"} THEN fs
        ELSE IF r.changes > 0 THEN [fs EXCEPT ![path] = r.txt]
        ELSE fs

\* ------------------------------------------- database name in brackets
_RESERVED_BKT == {"dbo", "PRIMARY", "MGMT", "SYS", "INFORMATION_SCHEMA", "TEMPDB", "MODEL", "MSDB", "MASTER"}

\* the spellings of database names the model uses, grouped by their str.upper()
Spellings ==
    [u \in {"DBO", "PRIMARY", "MGMT", "SYS", "INFORMATION_SCHEMA", "TEMPDB", "MODEL", "MSDB",
            "MASTER", "APP", "TARGET"} |->
        CASE u = "DBO"     -> {"dbo", "Dbo", "DBO"}
          [] u = "PRIMARY" -> {"primary", "Primary", "PRIMARY"}
          [] u = "MGMT"    -> {"mgmt", "Mgmt", "MGMT"}
          [] u = "SYS"     -> {"sys", "Sys", "SYS"}
          [] u = "INFORMATION_SCHEMA" -> {"information_schema", "Information_Schema", "INFORMATION_SCHEMA"}
          [] u = "TEMPDB"  -> {"tempdb", "TempDB", "TEMPDB"}
          [] u = "MODEL"   -> {"model", "Model", "MODEL"}
          [] u = "MSDB"    -> {"msdb", "MsDb", "MSDB"}
          [] u = "MASTER"  -> {"master", "Master", "MASTER"}
          [] u = "APP"     -> {"app", "App", "APP"}
          [] OTHER         -> {"target", "Target", "TARGET"}]

\* str.upper()
Upper(s) ==
    IF \E u \in DOMAIN Spellings : s \in Spellings[u]
    THEN CHOOSE u \in DOMAIN Spellings : s \in Spellings[u]
    ELSE s

\* faulty variant: the comparison is case sensitive
_is_reserved_exact(name) == name \in _RESERVED_BKT

\* line 194: both sides upper-cased
_is_reserved(name) == Upper(name) \in {Upper(s) : s \in _RESERVED_BKT}

\* The statement forms of _RE_USE_DB .. _RE_DATABASE_SCOPE (lines 183-190)
BracketForms == {"USE[", "CREATE DATABASE[", "ALTER DATABASE[", "DROP DATABASE[",
                 "BACKUP DATABASE[", "RESTORE DATABASE[", "DATABASE::["}

\* _sub_db on one match: [lexeme after, substitutions counted]
SubDbOne(x, db_name) ==
    IF x.k \in BracketForms
    THEN IF x.v # "" /\ _is_reserved(x.v) THEN [x |-> x, n |-> 0]
         ELSE [x |-> Lx(x.k, db_name), n |-> 1]
    ELSE IF x.k = "[]" THEN [x |-> Lx("[]", db_name), n |-> 1]
    ELSE [x |-> x, n |-> 0]

_replace_db_name_in_sql_text(sql, db_name) ==
    [txt |-> [i \in DOMAIN sql |-> SubDbOne(sql[i], db_name).x],
     n |-> Cardinality({i \in DOMAIN sql : SubDbOne(sql[i], db_name).n = 1})]

replace_db_brackets_in_file(fs, path, db_name) ==
    LET r == _replace_db_name_in_sql_text(fs[path], db_name)
    IN  IF r.n > 0 THEN [fs EXCEPT ![path] = r.txt] ELSE fs

\* -------------------------------------------- CREATE DATABASE / USE
CREATE_DB_RE(txt) == \E i \in DOMAIN txt : txt[i].k \in {"CREATE DATABASE[", "CREATE DATABASE"}

\* faulty variant: every script is taken to create the database
_script_contains_create_db_always(fs, path) == TRUE

_script_contains_create_db(fs, path) == CREATE_DB_RE(fs[path])

\* The forms of a USE directive at the start of a line: USE [name], USE name
\* followed by white space, and USE name; with the statement terminator
UseIdx(txt) == {i \in DOMAIN txt : txt[i].k \in {"USE[", "USE", "USE;"}}

\* group 1 of [^\]\s]+ on a name followed by ";": the terminator is captured with it
WithTerminator(name) ==
    CASE name = "master" -> "master;"
      [] name = "Target" -> "Target;"
      [] name = "App"    -> "App;"
      [] OTHER           -> "?;"

\* first line-start USE directive, or "" (None)
_detect_use_db(txt) ==
    IF UseIdx(txt) = {} THEN ""
    ELSE LET x == txt[CHOOSE i \in UseIdx(txt) : \A j \in UseIdx(txt) : i <= j]
         IN  IF x.k = "USE;" THEN WithTerminator(x.v) ELSE x.v

\* line 756: use_db or ("master" if (creates_db or not exists) else db_name)
connect_db_of(final_text, ex, db_name) ==
    LET use_db     == _detect_use_db(final_text)
        creates_db == CREATE_DB_RE(final_text)
    IN  IF use_db # "" THEN use_db
        ELSE IF creates_db \/ ~ex THEN "master" ELSE db_name

\* ------------------------------------------------- MDF/LDF rewrite
_rewrite_file_paths_in_sql_text(sql, db_name, mdf_dir, ldf_dir) ==
    LET ldf == IF ldf_dir # "" THEN ldf_dir ELSE mdf_dir
        one(x) ==
            CASE x.k = "FILENAME.mdf" /\ mdf_dir # "" -> [x |-> Lx(x.k, mdf_dir), p |-> 1, n |-> 0]
              [] x.k = "FILENAME.ldf" /\ ldf # ""     -> [x |-> Lx(x.k, ldf),     p |-> 1, n |-> 0]
              [] x.k \in {"NAME_Data", "NAME_Log"}    -> [x |-> Lx(x.k, db_name), p |-> 0, n |-> 1]
              [] OTHER                                -> [x |-> x, p |-> 0, n |-> 0]
    IN  [txt |-> [i \in DOMAIN sql |-> one(sql[i]).x],
         n_path |-> Cardinality({i \in DOMAIN sql : one(sql[i]).p = 1}),
         n_name |-> Cardinality({i \in DOMAIN sql : one(sql[i]).n = 1})]

_rewrite_file_paths_in_file(fs, path, db_name, mdf_dir, ldf_dir) ==
    LET r == _rewrite_file_paths_in_sql_text(fs[path], db_name, mdf_dir, ldf_dir)
    IN  IF mdf_dir = "" /\ ldf_dir = "" THEN fs
        ELSE IF r.n_path > 0 \/ r.n_name > 0 THEN [fs EXCEPT ![path] = r.txt]
        ELSE fs

\* ------------------------------------------- users in CREATE LOGIN/USER
\* re.search(r"user|usuarios", path.name, re.IGNORECASE) on the lower-cased name
LowerChar(c) == IF c = "C" THEN "c" ELSE c

LowerChars(cs) == [i \in DOMAIN cs |-> LowerChar(cs[i])]

ContainsChars(cs, sub) ==
    \E i \in 0..(Len(cs) - Len(sub)) : \A j \in 1..Len(sub) : cs[i + j] = sub[j]

NameHintsUser(name) == ContainsChars(LowerChars(NameChars[name]), <<"u","s","e","r">>)

\* indices of the first Len(users) blocks of one kind: block number b gets users[b]
BlockNo(sql, kind, i) == Cardinality({j \in 1..i : sql[j].k = kind})

_customize_two_users_sql_text(sql, users) ==
    LET one(i) ==
            LET x == sql[i]
            IN  CASE x.k = "sql" /\ x.v = "{{APP_USER}}" /\ Len(users) >= 1 -> [x |-> Lx("sql", users[1].u), n |-> 1]
                  [] x.k = "sql" /\ x.v = "{{APP_PASS}}" /\ Len(users) >= 1 -> [x |-> Lx("sql", users[1].p), n |-> 1]
                  [] x.k \in {"CREATE LOGIN[", "CREATE USER["} /\ BlockNo(sql, x.k, i) <= Len(users)
                        -> [x |-> Lx(x.k, users[BlockNo(sql, x.k, i)].u), n |-> 1]
                  [] OTHER -> [x |-> x, n |-> 0]
    IN  IF Len(users) = 0 THEN [txt |-> sql, n |-> 0]
        ELSE [txt |-> [i \in DOMAIN sql |-> one(i).x],
              n |-> Cardinality({i \in DOMAIN sql : one(i).n = 1})]

_customize_users_in_file(fs, path, users) ==
    LET txt == fs[path]
        needs == \/ \E i \in DOMAIN txt : txt[i].k \in {"CREATE LOGIN[", "CREATE USER["}
                 \/ NameHintsUser(path[2])
        r == _customize_two_users_sql_text(txt, users)
    IN  IF ~needs THEN fs
        ELSE IF r.n > 0 THEN [fs EXCEPT ![path] = r.txt]
        ELSE fs

\* ------------------------------------------------------------- ordering
Digits == <<"0", "1", "2", "3", "4", "5", "6", "7", "8", "9">>

IsDigit(c) == c \in Range(Digits)

DigitVal(c) == (CHOOSE i \in DOMAIN Digits : Digits[i] = c) - 1

\* ASCII order of the characters of the file names, after lower()
AsciiOrder == <<".", "0", "1", "2", "3", "4", "5", "6", "7", "8", "9", "_",
                "a", "b", "c", "d", "e", "f", "g", "h", "i", "j", "k", "l", "m",
                "n", "o", "p", "q", "r", "s", "t", "u", "v", "w", "x", "y", "z">>

Ord(c) == CHOOSE i \in DOMAIN AsciiOrder : AsciiOrder[i] = c

RECURSIVE DigitRunVal(_, _, _)
DigitRunVal(cs, i, acc) ==
    IF i > Len(cs) \/ ~IsDigit(cs[i]) THEN acc
    ELSE DigitRunVal(cs, i + 1, acc * 10 + DigitVal(cs[i]))

NoNumSentinel == 1000000000

\* NUM_RE.search: the first run of digits
NUM_RE(cs) ==
    LET at == {i \in DOMAIN cs : IsDigit(cs[i])}
    IN  IF at = {} THEN NoNumSentinel
        ELSE DigitRunVal(cs, CHOOSE i \in at : \A j \in at : i <= j, 0)

RECURSIVE StrLess(_, _)
StrLess(a, b) ==
    IF Len(b) = 0 THEN FALSE
    ELSE IF Len(a) = 0 THEN TRUE
    ELSE IF Ord(Head(a)) # Ord(Head(b)) THEN Ord(Head(a)) < Ord(Head(b))
    ELSE StrLess(Tail(a), Tail(b))

\* faulty variant: the number is left out of the key, the names are compared as text
KeyLess_byname(a, b) == StrLess(LowerChars(NameChars[a]), LowerChars(NameChars[b]))

\* line 496: the key (num, p.name.lower())
KeyLess(a, b) ==
    LET ka == NUM_RE(NameChars[a])
        kb == NUM_RE(NameChars[b])
    IN  \/ ka < kb
        \/ ka = kb /\ StrLess(LowerChars(NameChars[a]), LowerChars(NameChars[b]))

RECURSIVE ordenar_scripts(_)
ordenar_scripts(S) ==
    IF S = {} THEN <<>>
    ELSE LET m == CHOOSE a \in S : \A b \in S \ {a} : KeyLess(a, b)
         IN  <<m>> \o ordenar_scripts(S \ {m})

\* ---------------------------------------------------- literal tokens
\* content.replace(k, v) for every configured token
reemplazar_en_archivo(fs, ruta, reemplazos) ==
    LET content == [i \in DOMAIN fs[ruta] |->
                        IF fs[ruta][i].v \in DOMAIN reemplazos
                        THEN Lx(fs[ruta][i].k, reemplazos[fs[ruta][i].v])
                        ELSE fs[ruta][i]]
    IN  IF fs[ruta] = NoFile THEN fs
        ELSE IF content # fs[ruta] THEN [fs EXCEPT ![ruta] = content]
        ELSE fs

\* ------------------------------------------------------------ the hash
\* SHA-256 of the final text, taken as collision free: the digest stands for the text
_sha256_text(s) == <<"sha256", s>>

\* faulty variant: the transforms edit the original file in place and the copy is taken after
_prepare_script_text_for_exec_inplace(fs, name, db_name, sanitize_do, sanitize_level, users, mdf_dir, ldf_dir, tokens) ==
    LET path   == <<"orig", name>>
        f1 == IF DOMAIN tokens # {} /\ _script_contains_create_db(fs, path)
              THEN reemplazar_en_archivo(fs, path, tokens) ELSE fs
        f2 == IF sanitize_do THEN sanitize_sql_file(f1, path, sanitize_level) ELSE f1
        f3 == _customize_users_in_file(f2, path, users)
        f4 == replace_db_brackets_in_file(f3, path, db_name)
        f5 == _rewrite_file_paths_in_file(f4, path, db_name, mdf_dir, ldf_dir)
    IN  [f5 EXCEPT ![<<"stage", name>>] = f5[path]]

\* ------------------------------------------------------------- staging
_prepare_script_text_for_exec(fs, name, db_name, sanitize_do, sanitize_level, users, mdf_dir, ldf_dir, tokens) ==
    LET path   == <<"orig", name>>
        staged == <<"stage", name>>
        f0 == [fs EXCEPT ![staged] = fs[path]]
        f1 == IF DOMAIN tokens # {} /\ _script_contains_create_db(f0, path)
              THEN reemplazar_en_archivo(f0, staged, tokens) ELSE f0
        f2 == IF sanitize_do THEN sanitize_sql_file(f1, staged, sanitize_level) ELSE f1
        f3 == _customize_users_in_file(f2, staged, users)
        f4 == replace_db_brackets_in_file(f3, staged, db_name)
        f5 == _rewrite_file_paths_in_file(f4, staged, db_name, mdf_dir, ldf_dir)
    IN  f5

\* session preamble + staged text
_make_session_wrapped_file(fs, name) ==
    [fs EXCEPT ![<<"wrap", name>>] = <<Lx("sql", "SET NOCOUNT ON; SET XACT_ABORT ON; SET ANSI_WARNINGS ON")>>
                                        \o fs[<<"stage", name>>]]

rmtree(fs, path) == [fs EXCEPT ![path] = NoFile]

\* ------------------------------------------------------- the SQL Server
\* The server's answer to the sqlcmd -Q calls, from the state of the server:
\* whether the target database exists (de), whether the history table exists in
\* it (te), and the rows of the table (led).  A query against the target
\* database fails when the database or the table is missing.

\* _db_exists: DB_ID(...) IS NOT NULL; False when sqlcmd exits non-zero (probe_fails)
_db_exists(de, probe_fails) == de /\ ~probe_fails

\* _ensure_history_table against db_name: whether the table exists afterwards
_ensure_history_table(te, de) == te \/ de

\* faulty variant: the WHERE success = 1 filter is missing
_get_applied_hashes_any(led, te, de) ==
    IF de /\ te THEN {r.hash : r \in led} ELSE {}

\* _get_applied_hashes: hashes of the rows with success = 1; set() on a failed query
_get_applied_hashes(led, te, de) ==
    IF de /\ te THEN {r.hash : r \in {x \in led : x.success}} ELSE {}

\* _insert_history: the exit status is ignored; the unique index
\* UX_..._name_hash (line 536) rejects a second row with the same (name, hash)
_insert_history(led, te, de, script_name, script_hash, success) ==
    IF de /\ te /\ ~\E r \in led : r.name = script_name /\ r.hash = script_hash
    THEN led \cup {[name |-> script_name, hash |-> script_hash, success |-> success]}
    ELSE led

\* ------------------------------------------------------ generated T-SQL
\* The statements that _db_exists, _ensure_login, _ensure_db_user and
\* _insert_history build with f-strings.  A value is a sequence of characters; a
\* statement is the sequence of its interpolations, each one the context it is
\* placed in (an N'...' literal or a [...] identifier) and the characters placed.

\* the default password of CREATE LOGIN when none was given
TempPass == <<"T", "e", "m", "p", "#", "1", "2", "3", "4">>

\* str.replace("'", "''")
RECURSIVE replace_quote(_)
replace_quote(s) ==
    IF s = <<>> THEN <<>>
    ELSE (IF Head(s) = "'" THEN <<"'", "'">> ELSE <<Head(s)>>) \o replace_quote(Tail(s))

Slot(ctx, val) == [ctx |-> ctx, val |-> val]

\* _db_exists: IF DB_ID(N'{safe_db}') IS NOT NULL ...
_db_exists_q(name) == <<Slot("N'", replace_quote(name))>>

\* _ensure_login: IF SUSER_ID(N'{safe_login}') IS NULL
\*   BEGIN CREATE LOGIN [{login_name}] WITH PASSWORD = N'{login_pass or 'Temp#1234'}'; END
\* then, if login_pass: ALTER LOGIN [{login_name}] WITH PASSWORD = N'{login_pass}';
_ensure_login_q(login_name, login_pass) ==
    IF login_name = <<>> THEN <<>>
    ELSE <<Slot("N'", replace_quote(login_name)),
           Slot("[", login_name),
           Slot("N'", IF login_pass = <<>> THEN TempPass ELSE login_pass)>>
         \o (IF login_pass = <<>> THEN <<>>
             ELSE <<Slot("[", login_name), Slot("N'", login_pass)>>)

\* _ensure_db_user: IF USER_ID(N'{safe_user}') IS NULL
\*   BEGIN CREATE USER [{db_user}] FOR LOGIN [{login_name}]; END
\*   ELSE BEGIN ALTER USER [{db_user}] WITH LOGIN = [{login_name}]; END
_ensure_db_user_q(db_user, login_name) ==
    IF db_user = <<>> \/ login_name = <<>> THEN <<>>
    ELSE <<Slot("N'", replace_quote(db_user)),
           Slot("[", db_user), Slot("[", login_name),
           Slot("[", db_user), Slot("[", login_name)>>

\* _preprovision_users for one (uname, upass): login and database user of the same name
_preprovision_users_q(uname, upass) ==
    IF uname = <<>> THEN <<>>
    ELSE _ensure_login_q(uname, upass) \o _ensure_db_user_q(uname, uname)

\* _insert_history: VALUES (N'{sname}', '{script_hash}', ..., N'{msg_escaped}' or NULL)
_insert_history_q(script_name, message) ==
    <<Slot("N'", replace_quote(script_name))>>
        \o (IF message = <<>> THEN <<>> ELSE <<Slot("N'", replace_quote(message))>>)
\* ------------------------------------------------------- the form defaults
db_name == "Target"

sanitize_level == "light"

\* sanitize_scope = 'matching' with sanitize_match = ^002.*\.sql$ (lines 669-671, 719-729)
do_sanitize(name) ==
    LET cs == NameChars[name]
    IN  /\ Len(cs) >= 7
        /\ SubSeq(cs, 1, 3) = <<"0", "0", "2">>
        /\ SubSeq(cs, Len(cs) - 3, Len(cs)) = <<".", "s", "q", "l">>

\* the tokens field of the form: @ENV@=prod
TokenMaps == {[k \in {"@ENV@"} |-> "prod"]}

UserLists == {<<>>, <<[u |-> "svc", p |-> "pw"]>>}

\* ------------------------------------------- retries and sql_timeout fields
\* A form field is the sequence of its characters; Absent is a field the form
\* does not have, for which form.get returns the default.
Absent == <<"ABSENT">>

RECURSIVE lstrip(_)
lstrip(cs) == IF cs # <<>> /\ Head(cs) = " " THEN lstrip(Tail(cs)) ELSE cs

RECURSIVE rstrip(_)
rstrip(cs) == IF cs # <<>> /\ cs[Len(cs)] = " " THEN rstrip(SubSeq(cs, 1, Len(cs) - 1)) ELSE cs

\* int(str): blanks around, an optional sign, then digits only; ValueError otherwise
IntBody(cs) ==
    LET t == rstrip(lstrip(cs))
    IN  IF t # <<>> /\ Head(t) \in {"-", "+"} THEN Tail(t) ELSE t

IsInt(cs) == IntBody(cs) # <<>> /\ \A i \in DOMAIN IntBody(cs) : IsDigit(IntBody(cs)[i])

IntVal(cs) ==
    LET t == rstrip(lstrip(cs))
        n == DigitRunVal(IntBody(cs), 1, 0)
    IN  IF Head(t) = "-" THEN 0 - n ELSE n

Max(a, b) == IF a >= b THEN a ELSE b

DefaultRetries == 1
DefaultTimeout == 120
MinTimeout == 30

\* faulty variant: no clamp, the parsed number is used as it is
retries_of_unclamped(v) ==
    IF v = Absent THEN DefaultRetries
    ELSE IF IsInt(v) THEN IntVal(v) ELSE DefaultRetries

\* lines 640-643: retries = max(0, int(form.get('retries', 1))), 1 on any exception
retries_of(v) ==
    IF v = Absent THEN Max(0, DefaultRetries)
    ELSE IF IsInt(v) THEN Max(0, IntVal(v)) ELSE DefaultRetries

\* lines 644-647: sql_timeout = max(30, int(form.get('sql_timeout', 120))), 120 on any exception
sql_timeout_of(v) ==
    IF v = Absent THEN Max(MinTimeout, DefaultTimeout)
    ELSE IF IsInt(v) THEN Max(MinTimeout, IntVal(v)) ELSE DefaultTimeout

\* the retries fields of the requests served: absent, empty, not a number,
\* negative, and 0..MaxRetries
RetriesFields ==
    {Absent, <<>>, <<"x">>, <<"-", "1">>} \cup {<<Digits[n + 1]>> : n \in 0..MaxRetries}

\* tokens.get("MDF_DIR"): "" stands for None
TokenGet(tokens, key) == IF key \in DOMAIN tokens THEN tokens[key] ELSE ""

\* --------------------------------------------------------------- state
VARIABLES
    dbExists, tableExists, ledger,
    dirExists, dir, cfg,
    fs,
    pc, run, dry_run, status,
    scripts, idx, applied_hashes, users_provisioned, total_ok,
    h, connect_db, exists, attempt, last_err,
    sqlcmdCalls, histInserts, logEv, hashOf, batRan, provCalls,
    fresh, faulted, prevClean, succeededOnce,
    scripts_dir, staged_dir_for_uploads,
    connOf, provAt, sqlTouched, batCode,
    arg, ret

server == <<dbExists, tableExists, ledger>>
config == <<dirExists, dir, cfg, scripts_dir>>
locals == <<scripts, idx, applied_hashes, users_provisioned, total_ok, h, connect_db, exists, attempt, last_err>>
observed == <<sqlcmdCalls, histInserts, logEv, hashOf, batRan, provCalls>>
\* succeededOnce: the scripts that have succeeded, in this run or an earlier one,
\* on a target database that existed when they were executed
history == <<fresh, prevClean, succeededOnce>>
\* what the claims about provisioning, the executor and the batch look at
traced == <<connOf, provAt, sqlTouched, batCode>>
\* argument and result of a helper applied on its own
harness == <<arg, ret>>
runvars == <<server, config, fs, pc, run, dry_run, status, locals, observed, history, faulted,
             staged_dir_for_uploads, traced>>
vars == <<runvars, harness>>

NoHash == <<"none">>

Events == {"skip", "dry", "ok", "fail", "exc"}

\* no batch ran; otherwise batCode is <<exit status>>
NoCode == <<>>

NoArg == [f |-> "none"]

\* what subprocess.run can do with the sqlcmd process of one attempt
SqlcmdRuns == {[timed_out |-> FALSE, returncode |-> 0],
               [timed_out |-> FALSE, returncode |-> 1],
               [timed_out |-> TRUE, returncode |-> 0]}

TimeoutCode == 124

\* _sqlcmd: the exit status, or 124 on TimeoutExpired
_sqlcmd(res) == IF res.timed_out THEN TimeoutCode ELSE res.returncode

cur == scripts[idx]

\* The state before the first request.  scripts_dir = "" is a request with uploaded
\* files: dir is then the set of uploaded .sql files, saved when the run starts.
InitState ==
    /\ dbExists \in BOOLEAN
    /\ tableExists = FALSE
    /\ ledger = {}
    /\ scripts_dir \in {"", "scripts"}
    /\ dirExists \in BOOLEAN
    /\ scripts_dir = "" => ~dirExists
    /\ dir \in {S \in SUBSET Names :
                    /\ Cardinality(S) <= (IF scripts_dir = "" THEN MaxUploads ELSE MaxScripts)
                    /\ (scripts_dir # "" /\ ~dirExists => S = {})}
    /\ cfg \in [retries : {retries_of(v) : v \in RetriesFields}, users : UserLists, tokens : TokenMaps]
    /\ fs = [p \in Paths |-> IF p[1] = "orig" /\ p[2] \in dir /\ scripts_dir # "" THEN OrigText[p[2]] ELSE NoFile]
    /\ staged_dir_for_uploads = FALSE
    /\ connOf = [n \in Names |-> ""]
    /\ provAt = ""
    /\ sqlTouched = FALSE
    /\ batCode = NoCode
    /\ pc = "idle"
    /\ run = 0
    /\ dry_run = FALSE
    /\ status = "none"
    /\ scripts = <<>>
    /\ idx = 0
    /\ applied_hashes = {}
    /\ users_provisioned = FALSE
    /\ total_ok = 0
    /\ h = NoHash
    /\ connect_db = ""
    /\ exists = FALSE
    /\ attempt = 0
    /\ last_err = ""
    /\ sqlcmdCalls = [n \in Names |-> 0]
    /\ histInserts = [n \in Names |-> [ok |-> 0, fail |-> 0]]
    /\ logEv = [n \in Names |-> {}]
    /\ hashOf = [n \in Names |-> NoHash]
    /\ batRan = FALSE
    /\ provCalls = 0
    /\ fresh = FALSE
    /\ faulted = FALSE
    /\ prevClean = FALSE
    /\ succeededOnce = {}

Init ==
    /\ InitState
    /\ arg = NoArg
    /\ ret = NoArg

\* ------------------------------------------------------------- the run
\* faulty variant: the failing script is logged but the loop is left with break, not raise
Raise_break ==
    /\ status' = status
    /\ pc' = "bat"

\* `except Exception` (lines 833-835): the run returns status error
Raise ==
    /\ status' = "error"
    /\ pc' = "done"

\* `finally` (lines 837-842): the upload staging directory and the files saved in it
\* are removed
Finally(f) ==
    IF staged_dir_for_uploads THEN [p \in Paths |-> IF p[1] = "orig" THEN NoFile ELSE f[p]] ELSE f

\* line 681: the configured folder is missing
SourceMissing(sdir, there) == sdir # "" /\ ~there

\* faulty variant: an empty list of scripts is not an error
NoScripts_ignored(found) == FALSE

\* line 694: if not scripts
NoScripts(found) == found = {}

\* lines 690-692: every uploaded .sql file is saved into the upload staging
\* directory.  The scratch paths are those of this run: what an earlier run left
\* behind has other mkdtemp names.
SaveUploads(f, sdir, found) ==
    [p \in Paths |->
        IF p[1] # "orig" THEN NoFile
        ELSE IF sdir = "" /\ p[2] \in found THEN OrigText[p[2]]
        ELSE f[p]]

\* `continue` / end of the loop body (line 716)
NextScript ==
    /\ idx' = idx + 1
    /\ pc' = IF idx + 1 > Len(scripts) THEN "bat" ELSE "stage"

\* faulty variant: users_provisioned is not looked at
ProvisionNow_again(users, provisioned, cdb) ==
    Len(users) > 0 /\ Upper(cdb) = Upper(db_name)

\* line 760: users and not users_provisioned and connect_db.lower() == db_name.lower()
ProvisionNow(users, provisioned, cdb) ==
    Len(users) > 0 /\ ~provisioned /\ Upper(cdb) = Upper(db_name)

\* faulty variant: the exit status of the batch is not looked at
BatFailed_ignored(bat_exists, rc) == FALSE

\* line 827: the batch ran and its exit status is not 0
BatFailed(bat_exists, rc) == bat_exists /\ rc # 0

\* faulty variant: the test is inverted
SkipApplies_inverted(applied, hh) == applied # {} /\ hh \notin applied

\* faulty variant: the dry-run test comes first, so a dry run never skips
SkipApplies_dryfirst(applied, hh) == ~dry_run /\ applied # {} /\ hh \in applied

\* line 741: the skip test
SkipApplies(applied, hh) == applied # {} /\ hh \in applied

\* faulty variant: off by one, the budget is taken to include the first attempt
LoopCond_strict(att, retries) == att < retries

\* line 779: the retry loop's condition
LoopCond(att, retries) == att <= retries

\* faulty variant: the dry-run test is missing
DryRunCheck_off(dry) == FALSE

\* line 766: if dry_run
DryRunCheck(dry) == dry

\* line 809: the test for "retries exhausted"
Exhausted(att, retries, err) == att > retries /\ err # ""

\* lines 627-700: a request arrives; the form is read, the scripts found and ordered
StartRun(dry) ==
    /\ pc \in {"idle", "done"}
    /\ run < MaxRuns
    /\ run' = run + 1
    /\ dry_run' = dry
    \* the run that just ended: success, not a dry run, on an empty ledger, with
    \* no failed probe, and the target database exists now
    /\ prevClean' = (status = "success" /\ ~dry_run /\ fresh /\ ~faulted /\ dbExists)
    /\ fresh' = FALSE
    /\ faulted' = FALSE
    /\ UNCHANGED succeededOnce
    /\ total_ok' = 0
    /\ users_provisioned' = FALSE
    /\ applied_hashes' = {}
    /\ h' = NoHash
    /\ connect_db' = ""
    /\ exists' = FALSE
    /\ attempt' = 0
    /\ last_err' = ""
    /\ idx' = 0
    /\ sqlcmdCalls' = [n \in Names |-> 0]
    /\ histInserts' = [n \in Names |-> [ok |-> 0, fail |-> 0]]
    /\ logEv' = [n \in Names |-> {}]
    /\ hashOf' = [n \in Names |-> NoHash]
    /\ batRan' = FALSE
    /\ provCalls' = 0
    /\ connOf' = [n \in Names |-> ""]
    /\ provAt' = ""
    /\ sqlTouched' = FALSE
    /\ batCode' = NoCode
    /\ IF SourceMissing(scripts_dir, dirExists) \/ NoScripts(dir)
       THEN /\ scripts' = <<>>
            /\ fs' = SaveUploads(fs, scripts_dir, {})
            /\ staged_dir_for_uploads' = FALSE
            /\ Raise
       ELSE /\ scripts' = ordenar_scripts(dir)
            /\ fs' = SaveUploads(fs, scripts_dir, dir)
            /\ staged_dir_for_uploads' = (scripts_dir = "")
            /\ status' = "none"
            /\ pc' = "init_history"
    /\ UNCHANGED <<server, config, harness>>

\* lines 702-711: the ledger is read once, before the first script
InitHistory(probe_fails) ==
    /\ pc = "init_history"
    /\ LET ex == _db_exists(dbExists, probe_fails)
           te == IF ex THEN _ensure_history_table(tableExists, dbExists) ELSE tableExists
       IN  /\ tableExists' = te
           /\ applied_hashes' = IF ex THEN _get_applied_hashes(ledger, te, dbExists) ELSE {}
    /\ faulted' = (faulted \/ probe_fails)
    /\ fresh' = (ledger = {})
    /\ sqlTouched' = TRUE
    /\ idx' = 1
    /\ pc' = IF Len(scripts) = 0 THEN "bat" ELSE "stage"
    /\ UNCHANGED <<dbExists, ledger, config, fs, run, dry_run, status, prevClean, succeededOnce>>
    /\ UNCHANGED <<scripts, users_provisioned, total_ok, h, connect_db, exists, attempt, last_err, observed>>
    /\ UNCHANGED <<staged_dir_for_uploads, connOf, provAt, batCode, harness>>

\* lines 717-740: the script is staged and its final text hashed
Stage ==
    /\ pc = "stage"
    /\ fs' = _prepare_script_text_for_exec(fs, cur, db_name, do_sanitize(cur), sanitize_level, cfg.users, TokenGet(cfg.tokens, "MDF_DIR"), TokenGet(cfg.tokens, "LDF_DIR"), cfg.tokens)
    /\ h' = _sha256_text(fs'[<<"stage", cur>>])
    /\ hashOf' = [hashOf EXCEPT ![cur] = h']
    /\ pc' = "hashed"
    /\ UNCHANGED <<server, config, run, dry_run, status, history, faulted>>
    /\ UNCHANGED <<scripts, idx, applied_hashes, users_provisioned, total_ok, connect_db, exists, attempt, last_err>>
    /\ UNCHANGED <<sqlcmdCalls, histInserts, logEv, batRan, provCalls>>
    /\ UNCHANGED <<staged_dir_for_uploads, traced, harness>>

\* lines 741-745: already applied by hash
Skip ==
    /\ pc = "hashed"
    /\ SkipApplies(applied_hashes, h)
    /\ logEv' = [logEv EXCEPT ![cur] = @ \cup {"skip"}]
    /\ fs' = rmtree(fs, <<"stage", cur>>)
    /\ NextScript
    /\ UNCHANGED <<server, config, run, dry_run, status, history, faulted>>
    /\ UNCHANGED <<scripts, applied_hashes, users_provisioned, total_ok, h, connect_db, exists, attempt, last_err>>
    /\ UNCHANGED <<sqlcmdCalls, histInserts, hashOf, batRan, provCalls>>
    /\ UNCHANGED <<staged_dir_for_uploads, traced, harness>>

\* lines 747-777: connection database, user provisioning, dry-run, session wrapper
SelectDb(probe_fails) ==
    /\ pc = "hashed"
    /\ ~SkipApplies(applied_hashes, h)
    /\ LET final_text == fs[<<"stage", cur>>]
           ex         == _db_exists(dbExists, probe_fails)
           cdb        == connect_db_of(final_text, ex, db_name)
           prov       == ProvisionNow(cfg.users, users_provisioned, cdb)
       IN  /\ exists' = ex
           /\ connect_db' = cdb
           /\ connOf' = [connOf EXCEPT ![cur] = cdb]
           /\ users_provisioned' = (users_provisioned \/ prov)
           /\ provCalls' = IF prov THEN provCalls + 1 ELSE provCalls
           /\ provAt' = IF prov THEN cur ELSE provAt
    /\ faulted' = (faulted \/ probe_fails)
    /\ IF DryRunCheck(dry_run)
       THEN /\ logEv' = [logEv EXCEPT ![cur] = @ \cup {"dry"}]
            /\ fs' = rmtree(fs, <<"stage", cur>>)
            /\ NextScript
            /\ UNCHANGED <<attempt, last_err>>
       ELSE /\ fs' = _make_session_wrapped_file(fs, cur)
            /\ attempt' = 0
            /\ last_err' = ""
            /\ pc' = "attempt"
            /\ UNCHANGED <<logEv, idx>>
    /\ UNCHANGED <<server, config, run, dry_run, status, history>>
    /\ UNCHANGED <<scripts, applied_hashes, total_ok, h>>
    /\ UNCHANGED <<sqlcmdCalls, histInserts, hashOf, batRan>>
    /\ UNCHANGED <<staged_dir_for_uploads, sqlTouched, batCode, harness>>

\* lines 779-797: one pass of the retry loop
Attempt(res) ==
    /\ pc = "attempt"
    /\ attempt' = attempt + 1
    /\ sqlcmdCalls' = [sqlcmdCalls EXCEPT ![cur] = @ + 1]
    /\ IF _sqlcmd(res) = 0
       THEN LET de == dbExists \/ CREATE_DB_RE(fs[<<"wrap", cur>>])
                te == _ensure_history_table(tableExists, de)
            IN  /\ dbExists' = de
                /\ tableExists' = te
                /\ ledger' = _insert_history(ledger, te, de, cur, h, TRUE)
                /\ histInserts' = [histInserts EXCEPT ![cur].ok = @ + 1]
                /\ logEv' = [logEv EXCEPT ![cur] = @ \cup {"ok"}]
                /\ total_ok' = total_ok + 1
                /\ succeededOnce' = IF dbExists THEN succeededOnce \cup {cur} ELSE succeededOnce
                /\ pc' = "cleanup"
                /\ UNCHANGED last_err
       ELSE /\ last_err' = IF res.timed_out THEN "Timeout" ELSE "exit=1"
            /\ pc' = IF LoopCond(attempt', cfg.retries) THEN "attempt" ELSE "cleanup"
            /\ UNCHANGED <<dbExists, tableExists, ledger, histInserts, logEv, total_ok, succeededOnce>>
    /\ UNCHANGED <<config, fs, run, dry_run, status, fresh, prevClean, faulted>>
    /\ UNCHANGED <<scripts, idx, applied_hashes, users_provisioned, h, connect_db, exists>>
    /\ UNCHANGED <<hashOf, batRan, provCalls>>
    /\ UNCHANGED <<staged_dir_for_uploads, traced, harness>>

\* line 781 with subprocess.run raising something that is not TimeoutExpired (the
\* sqlcmd process cannot be started, its output cannot be decoded): _sqlcmd only
\* catches TimeoutExpired (line 430), so the exception reaches line 833 and the
\* cleanup of lines 799-807 is not run.
AttemptRaises ==
    /\ pc = "attempt"
    /\ attempt' = attempt + 1
    /\ logEv' = [logEv EXCEPT ![cur] = @ \cup {"exc"}]
    /\ fs' = Finally(fs)
    /\ staged_dir_for_uploads' = FALSE
    /\ Raise
    /\ UNCHANGED <<server, config, run, dry_run, history, faulted>>
    /\ UNCHANGED <<scripts, idx, applied_hashes, users_provisioned, total_ok, h, connect_db, exists, last_err>>
    /\ UNCHANGED <<sqlcmdCalls, histInserts, hashOf, batRan, provCalls>>
    /\ UNCHANGED <<traced, harness>>

\* lines 799-817: scratch directories removed; a script out of retries ends the run
Cleanup ==
    /\ pc = "cleanup"
    /\ IF Exhausted(attempt, cfg.retries, last_err)
       THEN LET te == _ensure_history_table(tableExists, dbExists)
            IN  /\ tableExists' = te
                /\ ledger' = _insert_history(ledger, te, dbExists, cur, h, FALSE)
                /\ histInserts' = [histInserts EXCEPT ![cur].fail = @ + 1]
                /\ logEv' = [logEv EXCEPT ![cur] = @ \cup {"fail"}]
                /\ fs' = Finally(rmtree(rmtree(fs, <<"stage", cur>>), <<"wrap", cur>>))
                /\ staged_dir_for_uploads' = FALSE
                /\ Raise
                /\ UNCHANGED idx
       ELSE /\ fs' = rmtree(rmtree(fs, <<"stage", cur>>), <<"wrap", cur>>)
            /\ NextScript
            /\ UNCHANGED <<tableExists, ledger, histInserts, logEv, status, staged_dir_for_uploads>>
    /\ UNCHANGED <<dbExists, config, run, dry_run, history, faulted>>
    /\ UNCHANGED <<scripts, applied_hashes, users_provisioned, total_ok, h, connect_db, exists, attempt, last_err>>
    /\ UNCHANGED <<sqlcmdCalls, hashOf, batRan, provCalls>>
    /\ UNCHANGED <<traced, harness>>

\* lines 819-831: the optional ejecutar_restantes.bat (run when the file exists),
\* then the result
Finish(bat_exists, rc) ==
    /\ pc = "bat"
    /\ batRan' = bat_exists
    /\ batCode' = IF bat_exists THEN <<rc>> ELSE NoCode
    /\ IF BatFailed(bat_exists, rc)
       THEN Raise
       ELSE /\ status' = "success"
            /\ pc' = "done"
    /\ fs' = Finally(fs)
    /\ staged_dir_for_uploads' = FALSE
    /\ UNCHANGED <<server, config, run, dry_run, history, faulted, locals>>
    /\ UNCHANGED <<sqlcmdCalls, histInserts, logEv, hashOf, provCalls>>
    /\ UNCHANGED <<connOf, provAt, sqlTouched, harness>>

\* _db_exists (line 415) and _exec_tsql (line 436) call subprocess.run with no
\* timeout argument; only _sqlcmd (line 428) passes one.  When the sqlcmd process
\* of the probe of line 703 or of line 750 never exits, the call never returns:
\* the run waits in it and takes no further step.
ProbeHangs ==
    /\ \/ pc = "init_history"
       \/ pc = "hashed" /\ ~SkipApplies(applied_hashes, h)
    /\ pc' = "blocked"
    /\ UNCHANGED <<server, config, fs, run, dry_run, status, locals, observed, history, faulted>>
    /\ UNCHANGED <<staged_dir_for_uploads, traced, harness>>

Next ==
    \/ \E dry \in BOOLEAN : StartRun(dry)
    \/ \E probe_fails \in BOOLEAN : InitHistory(probe_fails)
    \/ Stage
    \/ Skip
    \/ \E probe_fails \in BOOLEAN : SelectDb(probe_fails)
    \/ \E res \in SqlcmdRuns : Attempt(res)
    \/ AttemptRaises
    \/ Cleanup
    \/ \E bat_exists \in BOOLEAN, rc \in {0, 1} : Finish(bat_exists, rc)
    \/ ProbeHangs

Spec == Init /\ [][Next]_vars

\* ------------------------------------------ the helpers on their own
\* ordenar_scripts, _replace_db_name_in_sql_text, the two sanitizers and the
\* parsing of retries / sql_timeout, each applied once to an argument drawn from
\* the sets below.  No request is served.

\* one bracketed reference, alone or followed by USE [App]
DbNames == UNION {Spellings[u] : u \in DOMAIN Spellings} \cup {""}

DbTexts ==
    {<<Lx(k, v)>> : k \in BracketForms \cup {"[]", "sql"}, v \in DbNames}
        \cup {<<Lx(k, v), Lx("USE[", "App")>> : k \in BracketForms, v \in DbNames}

TargetNames == {"Target", "master", "dbo"}

\* printable text, line ends, an invisible character, an accented letter, a control
\* character, and a keyword glued to what follows it (INSERTED, SELECT*)
SanLexemes == {Lx("sql", "FROM t"), Lx("eol", "CRLF"), Lx("eol", "LF"), Lx("char", "NBSP"),
               Lx("char", "N_TILDE"), Lx("ctl", "BEL"), Lx("glued", "INSERTED")}

SanTexts == UNION {[1..n -> SanLexemes] : n \in 0..MaxLen}

FormFields ==
    RetriesFields \cup {<<"2", "9">>, <<"3", "0">>, <<"3", "1">>, <<" ", "5", " ">>, <<"+", "7">>,
                        <<"5", ".", "5">>, <<"-", "4", "0">>, <<"1", "0", "0", "0", "0", "0", "0">>}

\* values an operator can type: plain, with a single quote, with two quotes in a
\* row, with a closing bracket, and empty
Typed == {<<>>, <<"s", "a">>, <<"o", "'", "b">>, <<"p", "'", "'">>, <<"a", "]", "b">>}
\* a CREATE DATABASE with the logical names and the physical files of its data and log
PathLexemes == {Lx("CREATE DATABASE[", "App"), Lx("NAME_Data", "App"), Lx("NAME_Log", "App"),
                Lx("FILENAME.mdf", "C:\\old"), Lx("FILENAME.ldf", "C:\\old")}

PathTexts == UNION {[1..n -> PathLexemes] : n \in 1..2}

\* the values of the MDF_DIR and LDF_DIR tokens, "" when the token is not configured
MdfDirs == {"", "D:\\data"}
LdfDirs == {"", "E:\\log"}

\* a folder with the single script name, holding text
OneFile(name, text) == [p \in Paths |-> IF p = <<"orig", name>> THEN text ELSE NoFile]

\* final texts with and without a USE directive and a CREATE DATABASE
UseLexemes == {Lx("USE[", "Target"), Lx("USE", "master"), Lx("USE;", "master"),
               Lx("CREATE DATABASE[", "Target"), Lx("sql", "INSERT INTO t")}

UseTexts == UNION {[1..n -> UseLexemes] : n \in 1..2}

HelperArgs ==
    {[f |-> "ordenar_scripts", scripts |-> S] : S \in SUBSET SortNames}
        \cup {[f |-> "_replace_db_name_in_sql_text", sql |-> t, db_name |-> d] : t \in DbTexts, d \in TargetNames}
        \cup {[f |-> "sanitize_sql_text", level |-> l, txt |-> t] : l \in {"light", "aggressive"}, t \in SanTexts}
        \cup {[f |-> "form", retries |-> r, sql_timeout |-> t] : r \in FormFields, t \in FormFields}
        \cup {[f |-> "_prepare_script_text_for_exec", text |-> t, sanitize_do |-> FALSE, level |-> "light",
                 mdf_dir |-> m, ldf_dir |-> l] : t \in PathTexts, m \in MdfDirs, l \in LdfDirs}
        \cup {[f |-> "_prepare_script_text_for_exec", text |-> t, sanitize_do |-> TRUE, level |-> v,
                 mdf_dir |-> "", ldf_dir |-> ""] : t \in SanTexts, v \in {"light", "aggressive"}}
        \cup {[f |-> "connect_db", text |-> t, de |-> d, probe_fails |-> b] :
                 t \in UseTexts, d \in BOOLEAN, b \in BOOLEAN}
        \cup {[f |-> "statements", uname |-> u, upass |-> p, text |-> t] : u \in Typed, p \in Typed, t \in Typed}

HelperInit ==
    /\ InitState
    /\ ~dbExists
    /\ scripts_dir = "scripts"
    /\ ~dirExists
    /\ cfg = [retries |-> DefaultRetries, users |-> <<>>, tokens |-> CHOOSE t \in TokenMaps : TRUE]
    /\ arg \in HelperArgs
    /\ ret = NoArg

Apply_ordenar_scripts ==
    /\ arg.f = "ordenar_scripts"
    /\ ret = NoArg
    /\ ret' = [f |-> arg.f, scripts |-> ordenar_scripts(arg.scripts)]
    /\ UNCHANGED <<arg, runvars>>

Apply_replace_db_name ==
    /\ arg.f = "_replace_db_name_in_sql_text"
    /\ ret = NoArg
    /\ ret' = [f |-> arg.f, r |-> _replace_db_name_in_sql_text(arg.sql, arg.db_name)]
    /\ UNCHANGED <<arg, runvars>>

Apply_sanitize_sql_text ==
    /\ arg.f = "sanitize_sql_text"
    /\ ret = NoArg
    /\ ret' = [f |-> arg.f,
               r |-> IF arg.level = "aggressive" THEN sanitize_sql_text_aggressive(arg.txt)
                     ELSE sanitize_sql_text_light(arg.txt)]
    /\ UNCHANGED <<arg, runvars>>

Apply_form ==
    /\ arg.f = "form"
    /\ ret = NoArg
    /\ ret' = [f |-> arg.f, retries |-> retries_of(arg.retries), sql_timeout |-> sql_timeout_of(arg.sql_timeout)]
    /\ UNCHANGED <<arg, runvars>>

\* every statement built from the typed values: the probe for the database t, the
\* provisioning of (u, p), and the history row of the script t with the message t
Apply_statements ==
    /\ arg.f = "statements"
    /\ ret = NoArg
    /\ ret' = [f |-> arg.f,
               q |-> _db_exists_q(arg.text) \o _preprovision_users_q(arg.uname, arg.upass)
                       \o _insert_history_q(arg.text, arg.text)]
    /\ UNCHANGED <<arg, runvars>>

\* the staged text of one script under the policy and the directories of arg
Apply_prepare ==
    /\ arg.f = "_prepare_script_text_for_exec"
    /\ ret = NoArg
    /\ ret' = [f |-> arg.f,
               staged |-> _prepare_script_text_for_exec(OneFile("002_Create.sql", arg.text), "002_Create.sql",
                              db_name, arg.sanitize_do, arg.level, <<>>, arg.mdf_dir, arg.ldf_dir,
                              CHOOSE t \in TokenMaps : TRUE)[<<"stage", "002_Create.sql">>]]
    /\ UNCHANGED <<arg, runvars>>

\* the connection database of a non-skipped script with the final text of arg
Apply_connect_db ==
    /\ arg.f = "connect_db"
    /\ ret = NoArg
    /\ ret' = [f |-> arg.f, connect_db |-> connect_db_of(arg.text, _db_exists(arg.de, arg.probe_fails), db_name)]
    /\ UNCHANGED <<arg, runvars>>

HelperNext ==
    \/ Apply_ordenar_scripts
    \/ Apply_replace_db_name
    \/ Apply_sanitize_sql_text
    \/ Apply_form
    \/ Apply_statements
    \/ Apply_prepare
    \/ Apply_connect_db

HelperSpec == HelperInit /\ [][HelperNext]_vars

\* ------------------------------------------------------------ the claims
Zero == [ok |-> 0, fail |-> 0]

\* the script n is inside the retry loop or its cleanup
InLoop(n) == pc \in {"attempt", "cleanup"} /\ idx \in DOMAIN scripts /\ cur = n

\* the script n is staged and hashed and its verdict is still to come: the skip
\* test has not been made, or the run waits in the probe that follows it
AtSkipTest(n) == pc \in {"hashed", "blocked"} /\ idx \in DOMAIN scripts /\ cur = n

Pos(n) == CHOOSE i \in DOMAIN scripts : scripts[i] = n

SuccessHashes == {r.hash : r \in {x \in ledger : x.success}}

\* C1: a script one of whose attempts exits 0 has succeeded: no failure record is
\* issued for it and it is not reported as the script that aborted the run, also
\* when the attempt that exits 0 is the last one allowed.
C1_SuccessIsFinal ==
    \A n \in Names : "ok" \in logEv[n] => histInserts[n].fail = 0 /\ "fail" \notin logEv[n]

\* C2: a script whose attempts all exit non-zero (124 included) is attempted exactly
\* retries + 1 times, and then exactly one failure record is issued for it, and no
\* other record.
C2_ExhaustedOnce ==
    \A n \in Names : (sqlcmdCalls[n] > 0 /\ "ok" \notin logEv[n] /\ "exc" \notin logEv[n]) =>
        /\ sqlcmdCalls[n] <= cfg.retries + 1
        /\ histInserts[n].ok = 0
        /\ histInserts[n].fail = (IF "fail" \in logEv[n] THEN 1 ELSE 0)
        /\ (~(pc = "attempt" /\ cur = n) => sqlcmdCalls[n] = cfg.retries + 1)
        /\ (~InLoop(n) => "fail" \in logEv[n])

C2_Witness ==
    \E n \in Names :
        /\ cfg.retries = MaxRetries
        /\ sqlcmdCalls[n] = MaxRetries + 1
        /\ last_err = "Timeout"
        /\ histInserts[n] = [ok |-> 0, fail |-> 1]
        /\ pc = "done"

\* C3: a script that was executed gets one history record in the run, for its
\* terminal outcome and with that outcome's flag, never a success record and a
\* failure record.
C3_OneInsertPerScript ==
    \A n \in Names :
        /\ histInserts[n].ok + histInserts[n].fail <= 1
        /\ (histInserts[n].ok = 1 => "ok" \in logEv[n])
        /\ (histInserts[n].fail = 1 => "fail" \in logEv[n])
        /\ (sqlcmdCalls[n] > 0 /\ ~InLoop(n) => histInserts[n].ok + histInserts[n].fail = 1)

\* C4: once a script is out of retries the run is over with status error: no later
\* script is staged or executed and the trailing batch is not run.
C4_FailStopsRun ==
    \A n \in Names : "fail" \in logEv[n] =>
        /\ pc = "done"
        /\ status = "error"
        /\ ~batRan
        /\ \A p \in Paths : p[1] # "orig" => fs[p] = NoFile
        /\ \A m \in Range(scripts) : Pos(m) > Pos(n) =>
              hashOf[m] = NoHash /\ sqlcmdCalls[m] = 0 /\ logEv[m] = {}

C4_Witness ==
    \E n \in Names : "fail" \in logEv[n] /\ "ok" \notin logEv[n] /\ Pos(n) < Len(scripts)

\* C5: a run that follows a successful run of the same scripts with the same form
\* skips every script: it executes none and issues no history record.  The first
\* run is one that really ran the scripts (no dry run) against a fresh target:
\* no ledger row before it, the target database present after it (prevClean);
\* no existence probe failed in either run.
C5_SecondRunSkipsAll ==
    (prevClean /\ ~dry_run /\ ~faulted /\ pc # "idle") =>
        /\ \A n \in Names : sqlcmdCalls[n] = 0 /\ histInserts[n] = Zero
        /\ (pc = "done" => \A n \in dir : logEv[n] = {"skip"})

\* C6: a script whose hash is in the applied set read from the ledger is skipped:
\* it is never executed, gets no history record, and its staging directory is gone
\* when the run moves on.
C6_AppliedIsSkipped ==
    \A n \in Names : hashOf[n] \in applied_hashes =>
        /\ sqlcmdCalls[n] = 0
        /\ histInserts[n] = Zero
        /\ logEv[n] \subseteq {"skip"}
        /\ fs[<<"wrap", n>>] = NoFile
        /\ (~AtSkipTest(n) => "skip" \in logEv[n] /\ fs[<<"stage", n>>] = NoFile)

C6_Witness ==
    \E n \in Names : "skip" \in logEv[n] /\ pc = "hashed" /\ cur # n

\* C7: in a dry run a script whose hash is in the applied set ends as skipped and
\* is never reported as dry-run.
C7_SkipBeforeDryRun ==
    dry_run =>
        \A n \in Names : hashOf[n] \in applied_hashes =>
            "dry" \notin logEv[n] /\ (~AtSkipTest(n) => "skip" \in logEv[n])

C7_Witness ==
    dry_run /\ \E n \in Names : "skip" \in logEv[n]

C9_FailedNeverApplied ==
    /\ applied_hashes \subseteq SuccessHashes
    /\ \A n \in Names : "skip" \in logEv[n] => hashOf[n] \in SuccessHashes

C9_Witness ==
    \E n \in Names :
        /\ \E r \in ledger : r.hash = hashOf[n] /\ ~r.success
        /\ hashOf[n] \notin SuccessHashes
        /\ \A m \in Names : "fail" \notin logEv[m]
        /\ ~faulted
        /\ tableExists
        /\ sqlcmdCalls[n] > 0

\* C10: the original script files keep their content through every run; the
\* transforms write to the staged copy only.  For an upload the original is the
\* file saved in the upload staging directory, which lasts until the run returns.
C10_OriginalsUntouched ==
    \A n \in Names :
        fs[<<"orig", n>>] = (IF n \in dir /\ (scripts_dir # "" \/ staged_dir_for_uploads)
                             THEN OrigText[n] ELSE NoFile)

C10_Witness ==
    \E n \in Names :
        /\ fs[<<"stage", n>>] # NoFile
        /\ fs[<<"stage", n>>] # fs[<<"orig", n>>]

IsTarget(d) == Upper(d) = Upper(db_name)

Terminal == {"skip", "dry", "ok"}

\* C11: when the run has returned, on whatever path, no scratch staging directory
\* and no session-wrapper directory made during the run exists any more, and the
\* upload staging directory, with the files saved in it, is gone.
C11_NoScratchLeft ==
    pc = "done" =>
        /\ \A p \in Paths : p[1] # "orig" => fs[p] = NoFile
        /\ ~staged_dir_for_uploads
        /\ (scripts_dir = "" => \A n \in Names : fs[<<"orig", n>>] = NoFile)

\* C12 as stated: a run with an application user configured that returns success
\* has provisioned the users exactly once.
C12_ProvisionedExactlyOnce ==
    (pc = "done" /\ status = "success" /\ Len(cfg.users) > 0) => provCalls = 1

\* C12 amended: users are provisioned at most once per run, and never without an
\* application user; they are provisioned exactly when a script that is not skipped
\* gets the target as its connection database, and then at the first such script
\* in order.  A run in which no such script is reached provisions nothing.
C12_ProvisionedAtFirstTarget ==
    /\ provCalls <= 1
    /\ (Len(cfg.users) = 0 => provCalls = 0)
    /\ (provCalls = 1 <=> provAt # "")
    /\ (provAt # "" =>
            /\ IsTarget(connOf[provAt])
            /\ \A m \in Range(scripts) : Pos(m) < Pos(provAt) => ~IsTarget(connOf[m]))
    /\ (Len(cfg.users) > 0 => \A n \in Names : IsTarget(connOf[n]) => provCalls = 1)

C12_Witness ==
    /\ pc = "done"
    /\ provCalls = 1
    /\ status = "success"
    /\ Pos(provAt) > 1

\* C13: when the scripts folder is missing, or the selected source has no .sql
\* file, the run returns status error and has made no call of the SQL executor:
\* no existence probe, no ledger query, no provisioning, no script execution.
C13_NoScriptsNoSql ==
    (pc = "done" /\ ((scripts_dir # "" /\ ~dirExists) \/ dir = {})) =>
        /\ status = "error"
        /\ ~sqlTouched
        /\ provCalls = 0
        /\ \A n \in Names : sqlcmdCalls[n] = 0 /\ histInserts[n] = Zero /\ hashOf[n] = NoHash
        /\ ~batRan

C13_Witness ==
    /\ pc = "done"
    /\ scripts_dir = ""
    /\ dir = {}
    /\ dbExists
    /\ run = MaxRuns

\* C14: the result says success only if every script found ended as skipped,
\* dry-run-reported or succeeded, none failed, and the trailing batch, when it ran,
\* exited 0; every other run returns error.
C14_StatusTellsOutcome ==
    pc = "done" =>
        /\ status \in {"success", "error"}
        /\ (status = "success" =>
                /\ dir # {}
                /\ \A n \in dir : logEv[n] \cap Terminal # {} /\ logEv[n] \subseteq Terminal
                /\ batCode \in {NoCode, <<0>>})

C14_Witness ==
    /\ pc = "done"
    /\ status = "success"
    /\ batCode = <<0>>
    /\ \E n, m \in dir : "ok" \in logEv[n] /\ "skip" \in logEv[m]

\* the four files of the scripts folder in the order of their keys (1, 2, 3, 4)
ExpectedOrder == <<"001_login.sql", "002_Create.sql", "003_data.sql", "004_copy.sql">>

Before(n, m) == Pos(n) < Pos(m)

\* ordenar_scripts on the set of the ordering example, and on {10_a, 9_b}
ExampleOrder == ordenar_scripts({"003_x.sql", "001_a.sql", "002_b.sql", "setup.sql"})

NumericOrder == ordenar_scripts({"10_a.sql", "9_b.sql"})

\* C15: the scripts are processed one at a time in ascending order of the key
\* (number of the first run of digits, then lower-cased name): a script is staged
\* only after every script before it has ended as skipped, dry-run-reported or
\* succeeded and its scratch files are gone.  {003_x, 001_a, 002_b, setup} is
\* ordered 001_a, 002_b, 003_x, setup; 9_b comes before 10_a.
C15_OneAtATimeInOrder ==
    /\ ExampleOrder = <<"001_a.sql", "002_b.sql", "003_x.sql", "setup.sql">>
    /\ NumericOrder = <<"9_b.sql", "10_a.sql">>
    /\ (scripts # <<>> => scripts = SelectSeq(ExpectedOrder, LAMBDA n : n \in dir))
    /\ \A m \in Range(scripts) : hashOf[m] # NoHash =>
            /\ idx >= Pos(m)
            /\ \A n \in Range(scripts) : Before(n, m) =>
                    /\ logEv[n] \cap Terminal # {}
                    /\ logEv[n] \subseteq Terminal
                    /\ fs[<<"stage", n>>] = NoFile
                    /\ fs[<<"wrap", n>>] = NoFile

C15_Witness ==
    \E n, m \in Range(scripts) :
        /\ Before(n, m)
        /\ "ok" \in logEv[n]
        /\ pc = "attempt"
        /\ cur = m

HasDigit(n) == \E i \in DOMAIN NameChars[n] : IsDigit(NameChars[n][i])

\* C16: in the order ordenar_scripts produces, every name without a digit comes
\* after every name with a digit, whatever the number.
C16_DigitlessLast ==
    ret.f = "ordenar_scripts" =>
        \A i, j \in DOMAIN ret.scripts :
            HasDigit(ret.scripts[i]) /\ ~HasDigit(ret.scripts[j]) => i < j

ReservedUpper == {"DBO", "PRIMARY", "MGMT", "SYS", "INFORMATION_SCHEMA", "TEMPDB", "MODEL", "MSDB", "MASTER"}

\* a reserved identifier in any letter case
IsReservedName(v) == \E u \in ReservedUpper : v \in Spellings[u]

\* C17: whatever the target name, the rewrite leaves a bracketed reference to a
\* reserved identifier, in any letter case, as it is and does not count it; every
\* other bracketed reference and every empty [] is rewritten and counted.
C17_ReservedKept ==
    ret.f = "_replace_db_name_in_sql_text" =>
        /\ \A i \in DOMAIN arg.sql :
                (arg.sql[i].k \in BracketForms /\ IsReservedName(arg.sql[i].v)) =>
                    ret.r.txt[i] = arg.sql[i]
        /\ ret.r.n = Cardinality({i \in DOMAIN arg.sql :
                                     \/ arg.sql[i].k = "[]"
                                     \/ arg.sql[i].k \in BracketForms /\ ~IsReservedName(arg.sql[i].v)})

C17_Witness ==
    /\ ret.f = "_replace_db_name_in_sql_text"
    /\ arg.sql = <<Lx("DATABASE::[", "Master"), Lx("USE[", "App")>>
    /\ arg.db_name = "dbo"
    /\ ret.r = [txt |-> <<Lx("DATABASE::[", "Master"), Lx("USE[", "dbo")>>, n |-> 1]

Occurrences(txt, v) == Cardinality({i \in DOMAIN txt : txt[i].v = v})

\* C18: the staged copy of a script whose original has no CREATE DATABASE keeps
\* every token key it contains, and no token value is put into it.
C18_TokensOnlyWithCreateDb ==
    \A n \in Names :
        (fs[<<"stage", n>>] # NoFile /\ n \in dir /\ ~CREATE_DB_RE(OrigText[n])) =>
            \A k \in DOMAIN cfg.tokens :
                /\ Occurrences(fs[<<"stage", n>>], k) = Occurrences(OrigText[n], k)
                /\ Occurrences(fs[<<"stage", n>>], cfg.tokens[k]) = Occurrences(OrigText[n], cfg.tokens[k])

C18_Witness ==
    /\ Occurrences(fs[<<"stage", "001_login.sql">>], "@ENV@") = 1
    /\ "@ENV@" \in DOMAIN cfg.tokens
    /\ Occurrences(OrigText["002_Create.sql"], "@ENV@") = 1
    /\ "ok" \in logEv["001_login.sql"]

\* printable ASCII only, every line end a CRLF
Clean(txt) == \A i \in DOMAIN txt : txt[i].k \notin {"char", "ctl"} /\ (txt[i].k = "eol" => txt[i].v = "CRLF")

\* C19: on a text of printable ASCII with CRLF line ends both sanitizers report 0
\* changes and return the text as it was.
C19_CleanTextUnchanged ==
    (ret.f = "sanitize_sql_text" /\ Clean(arg.txt)) =>
        ret.r.changes = 0 /\ ret.r.txt = arg.txt

\* fields int() does not accept
Unparsable == {<<>>, <<"x">>, <<"5", ".", "5">>}

\* C20: whatever the retries and sql_timeout fields hold, the retry count is >= 0
\* and the timeout >= 30; an absent or unparsable field gives 1 and 120.
C20_RetriesAndTimeoutFloors ==
    ret.f = "form" =>
        /\ ret.retries >= 0
        /\ ret.sql_timeout >= MinTimeout
        /\ (arg.retries \in Unparsable \cup {Absent} => ret.retries = DefaultRetries)
        /\ (arg.sql_timeout \in Unparsable \cup {Absent} => ret.sql_timeout = DefaultTimeout)

C20_Witness ==
    /\ ret.f = "form"
    /\ arg.retries = <<"-", "1">>
    /\ arg.sql_timeout = <<"2", "9">>
    /\ ret.retries = 0
    /\ ret.sql_timeout = MinTimeout
\* the value ends the context it is placed in: a character c (the quote of an
\* N'...' literal, the ] of a [...] identifier) that is not one of a doubled pair
RECURSIVE Closes(_, _)
Closes(c, s) ==
    IF s = <<>> THEN FALSE
    ELSE IF Head(s) = c
         THEN (IF Len(s) >= 2 /\ s[2] = c THEN Closes(c, Tail(Tail(s))) ELSE TRUE)
         ELSE Closes(c, Tail(s))

Closer(ctx) == IF ctx = "N'" THEN "'" ELSE "]"

\* C21: in the statements of the existence probe, _ensure_login, _ensure_db_user
\* and _insert_history, no interpolated value (login name, password, database
\* user, database name, script name, message) ends the literal or identifier it is
\* placed in: every quote of a value placed in a literal is doubled.
C21_NoValueEndsItsContext ==
    ret.f = "statements" =>
        \A i \in DOMAIN ret.q : ~Closes(Closer(ret.q[i].ctx), ret.q[i].val)

\* C22: in the staged text every NAME = '..._Data' / '..._Log' clause carries
\* {db_name}_Data / {db_name}_Log whether or not an MDF/LDF directory is
\* configured, and a FILENAME clause is as in the original when none is configured.
C22_NamesAlwaysRewritten ==
    ret.f = "_prepare_script_text_for_exec" /\ ~arg.sanitize_do =>
        \A i \in DOMAIN ret.staged :
            /\ ret.staged[i].k \in {"NAME_Data", "NAME_Log"} => ret.staged[i].v = db_name
            /\ ret.staged[i].k \in {"FILENAME.mdf", "FILENAME.ldf"} /\ arg.mdf_dir = "" /\ arg.ldf_dir = ""
                   => ret.staged[i] = arg.text[i]

\* C30: the staged text of a script that the sanitization policy selects, at
\* level light or aggressive, has every line end as CRLF: no bare LF, no bare CR.
C30_StagedEndsAreCRLF ==
    ret.f = "_prepare_script_text_for_exec" /\ arg.sanitize_do =>
        \A i \in DOMAIN ret.staged : ret.staged[i].k = "eol" => ret.staged[i].v = "CRLF"

\* the name written in the first USE directive of txt, "" when there is none
FirstUseName(txt) ==
    IF \E i \in DOMAIN txt : txt[i].k \in {"USE[", "USE", "USE;"}
    THEN txt[CHOOSE i \in DOMAIN txt :
                /\ txt[i].k \in {"USE[", "USE", "USE;"}
                /\ \A j \in 1..(i - 1) : txt[j].k \notin {"USE[", "USE", "USE;"}].v
    ELSE ""

\* C25: the connection database of a non-skipped script is the name in the first
\* line-start USE directive of its staged text if there is one; otherwise master
\* if the text contains CREATE DATABASE, or the probe reports the target database
\* absent, or the probe fails; otherwise the configured target database.
C25_ConnectionRule ==
    ret.f = "connect_db" =>
        ret.connect_db =
            (IF FirstUseName(arg.text) # "" THEN FirstUseName(arg.text)
             ELSE IF (\E i \in DOMAIN arg.text : arg.text[i].k = "CREATE DATABASE[")
                       \/ ~arg.de \/ arg.probe_fails
                  THEN "master"
                  ELSE db_name)

\* C24: when _preprovision_users has been invoked for a script, the existence
\* probe made for that script returned true.
C24_ProvisionedOnlyIfProbed ==
    pc = "attempt" /\ provAt = cur => exists

\* C26: the ledger table check/creation and every ledger read or insert are
\* issued only after a probe has confirmed that the target database exists: no
\* table check and no history insert has been issued for a script while the
\* target database does not exist.
C26_LedgerOnlyWhenDbExists ==
    \A n \in Names : histInserts[n] # Zero => dbExists

\* C27: two scripts with the same post-transform text are one unit of work: once
\* one of them has succeeded earlier in the run, the other is not executed (the
\* ledger being in reach: the database is there, the table too, no probe failed).
C27_SameTextRunsOnce ==
    \A n, m \in Names :
        /\ n # m
        /\ dbExists /\ tableExists /\ ~faulted
        /\ hashOf[n] # NoHash
        /\ hashOf[n] = hashOf[m]
        /\ "ok" \in logEv[n]
        /\ Pos(n) < Pos(m)
        => sqlcmdCalls[m] = 0

\* C29: a dry run changes nothing outside its log and scratch files: no login or
\* database user is provisioned, the trailing batch is not executed, and no
\* ledger table is created (in a first run: there is none).
C29_DryRunChangesNothing ==
    dry_run /\ pc # "idle" =>
        /\ provCalls = 0
        /\ ~batRan
        /\ run = 1 => ~tableExists

\* C28: with unchanged configuration, a script that succeeded in some run on the
\* existing target database is skipped in every later run, also when an earlier
\* run had recorded a terminal failure for the same (filename, hash): in a run
\* whose probes did not fail, a script that succeeded before is not executed again.
C28_SucceededStaysSkipped ==
    \A n \in succeededOnce :
        ~faulted /\ "ok" \notin logEv[n] => sqlcmdCalls[n] = 0

\* C23: every run returns a result: no wait on the SQL client can block the run
\* for ever.  A run that has not returned can always take a further step.
C23_RunNeverBlocked ==
    pc = "done" \/ ENABLED Next

====
